---------------------------- MODULE Spec2Model ----------------------------
(***************************************************************************)
(* Model of BiAnalitico.py: the Streamlit report that compares the         *)
(* complaints of a "current" and a "reference" (year, month) period.       *)
(*                                                                         *)
(*   analisar_variacao    lines 7-14    percent and direction of two counts*)
(*   processar_dados      lines 27-65   normalisation of the uploaded table*)
(*   script body          lines 70-256  filters, summary, tables, ranking  *)
(*                                                                         *)
(* Text cells whose characters the code transforms (the month column) are  *)
(* sequences of one-character strings; a missing cell (NaN) is a cell with *)
(* nulo = TRUE.  Floats are exact rationals [num, den] in lowest terms     *)
(* with den > 0; den = 0 stands for a division that raised.                *)
(***************************************************************************)
EXTENDS Integers, Sequences, FiniteSets, TLC

VARIABLES
    pc,              \* position of the script / of the call under test
    count_atual,     \* arguments of analisar_variacao (line 7)
    count_anterior,
    ret,             \* value returned by analisar_variacao
    bruto,           \* the uploaded table as read by pd.read_csv (line 72)
    df,              \* the table returned by processar_dados (line 73)
    erro,            \* TRUE when processar_dados reported st.error (line 64)
    sel,             \* the sidebar selection (lines 82-86)
    saida,           \* what the script body rendered (lines 95-254)
    serie,           \* the Series handed to nsmallest / nlargest (line 206)
    ranking          \* the natures listed by lines 210-211 and 234-235

vars == <<pc, count_atual, count_anterior, ret, bruto, df, erro, sel, saida,
          serie, ranking>>

-----------------------------------------------------------------------------
(* Bounds of the model.                                                    *)

MaxCount == 12       \* counts given to analisar_variacao range over 0..MaxCount
MaxLinhas == 2       \* rows of an uploaded table in the analysis
MaxBrutas == 2       \* rows of an uploaded table with defective cells
MaxMes == 2          \* the months offered by the sidebar: the first MaxMes
MaxSerie == 6        \* natures in a Series given to the ranker
MaxDelta == 2        \* |delta| of a nature in that Series

-----------------------------------------------------------------------------
(* Generic helpers.                                                        *)

RECURSIVE GCD(_, _)
GCD(m, n) == IF n = 0 THEN m ELSE GCD(n, m % n)

Abs(n) == IF n < 0 THEN -n ELSE n

\* x / y of Python on two ints: ZeroDivisionError (den = 0) or the quotient.
TrueDiv(x, y) ==
    IF y = 0 THEN [num |-> 0, den |-> 0]
    ELSE LET s == IF y < 0 THEN -1 ELSE 1
             g == GCD(Abs(x), Abs(y))
         IN  [num |-> (s * x) \div g, den |-> (s * y) \div g]

\* q * k for a quotient q and an int k.
Times(q, k) ==
    IF q.den = 0 THEN q ELSE TrueDiv(q.num * k, q.den)

Numero(n) == [num |-> n, den |-> 1]

Definido(q) == q.den # 0

Range(s) == {s[i] : i \in DOMAIN s}

-----------------------------------------------------------------------------
(* analisar_variacao, lines 7-14.                                          *)

\* the function without its guard on count_anterior = 0
analisar_variacao_sem_guarda(atual, anterior) ==
    LET var == Times(TrueDiv(atual - anterior, anterior), 100)
    IN  [var |-> var, dir |-> IF var.num > 0 THEN 1 ELSE -1]

analisar_variacao(atual, anterior) ==
    IF anterior = 0
    THEN IF atual = 0
         THEN [var |-> Numero(0), dir |-> 0]
         ELSE [var |-> Numero(100), dir |-> 1]
    ELSE LET var == Times(TrueDiv(atual - anterior, anterior), 100)
         IN  [var |-> var, dir |-> IF var.num > 0 THEN 1 ELSE -1]

-----------------------------------------------------------------------------
(* Text: str.lower and str.strip on sequences of characters (line 37).     *)

MAIUSCULAS ==
    <<"A", "B", "C", "D", "E", "F", "G", "H", "I", "J", "K", "L", "M", "N",
      "O", "P", "Q", "R", "S", "T", "U", "V", "W", "X", "Y", "Z", "Ç">>

MINUSCULAS ==
    <<"a", "b", "c", "d", "e", "f", "g", "h", "i", "j", "k", "l", "m", "n",
      "o", "p", "q", "r", "s", "t", "u", "v", "w", "x", "y", "z", "ç">>

ESPACOS == {" ", "\t"}

LowerChar(c) ==
    IF \E i \in DOMAIN MAIUSCULAS : MAIUSCULAS[i] = c
    THEN MINUSCULAS[CHOOSE i \in DOMAIN MAIUSCULAS : MAIUSCULAS[i] = c]
    ELSE c

UpperChar(c) ==
    IF \E i \in DOMAIN MINUSCULAS : MINUSCULAS[i] = c
    THEN MAIUSCULAS[CHOOSE i \in DOMAIN MINUSCULAS : MINUSCULAS[i] = c]
    ELSE c

\* str.lower()
Lower(s) == [i \in DOMAIN s |-> LowerChar(s[i])]

RECURSIVE LStrip(_)
LStrip(s) ==
    IF s # <<>> /\ Head(s) \in ESPACOS THEN LStrip(Tail(s)) ELSE s

RECURSIVE RStrip(_)
RStrip(s) ==
    IF s # <<>> /\ s[Len(s)] \in ESPACOS
    THEN RStrip(SubSeq(s, 1, Len(s) - 1))
    ELSE s

\* str.strip()
Strip(s) == RStrip(LStrip(s))

-----------------------------------------------------------------------------
(* Months, lines 21-24 and 40-46.                                          *)

ORDEM_MESES ==
    <<<<"j", "a", "n", "e", "i", "r", "o">>,
      <<"f", "e", "v", "e", "r", "e", "i", "r", "o">>,
      <<"m", "a", "r", "ç", "o">>,
      <<"a", "b", "r", "i", "l">>,
      <<"m", "a", "i", "o">>,
      <<"j", "u", "n", "h", "o">>,
      <<"j", "u", "l", "h", "o">>,
      <<"a", "g", "o", "s", "t", "o">>,
      <<"s", "e", "t", "e", "m", "b", "r", "o">>,
      <<"o", "u", "t", "u", "b", "r", "o">>,
      <<"n", "o", "v", "e", "m", "b", "r", "o">>,
      <<"d", "e", "z", "e", "m", "b", "r", "o">>>>

\* meses_map (lines 40-44): <<abbreviation, full name>>
meses_map ==
    <<<<<<"j", "a", "n">>, <<"j", "a", "n", "e", "i", "r", "o">>>>,
      <<<<"f", "e", "v">>, <<"f", "e", "v", "e", "r", "e", "i", "r", "o">>>>,
      <<<<"m", "a", "r">>, <<"m", "a", "r", "ç", "o">>>>,
      <<<<"a", "b", "r">>, <<"a", "b", "r", "i", "l">>>>,
      <<<<"m", "a", "i">>, <<"m", "a", "i", "o">>>>,
      <<<<"j", "u", "n">>, <<"j", "u", "n", "h", "o">>>>,
      <<<<"j", "u", "l">>, <<"j", "u", "l", "h", "o">>>>,
      <<<<"a", "g", "o">>, <<"a", "g", "o", "s", "t", "o">>>>,
      <<<<"s", "e", "t">>, <<"s", "e", "t", "e", "m", "b", "r", "o">>>>,
      <<<<"o", "u", "t">>, <<"o", "u", "t", "u", "b", "r", "o">>>>,
      <<<<"n", "o", "v">>, <<"n", "o", "v", "e", "m", "b", "r", "o">>>>,
      <<<<"d", "e", "z">>, <<"d", "e", "z", "e", "m", "b", "r", "o">>>>>>

\* Series.replace(meses_map) on one value: whole-value replacement
Replace(txt) ==
    IF \E i \in DOMAIN meses_map : meses_map[i][1] = txt
    THEN meses_map[CHOOSE i \in DOMAIN meses_map : meses_map[i][1] = txt][2]
    ELSE txt

Cel(txt) == [nulo |-> FALSE, txt |-> txt]

CelNula == [nulo |-> TRUE, txt |-> <<>>]

\* Lines 37, 45, 46 on one cell of the month column: lower, strip, replace,
\* then Categorical(categories=ORDEM_MESES), which turns any other value
\* into NaN.  A NaN cell stays NaN through the .str methods.
CanonMes(cel) ==
    IF cel.nulo THEN CelNula
    ELSE LET v == Replace(Strip(Lower(cel.txt)))
         IN  IF v \in Range(ORDEM_MESES) THEN Cel(v) ELSE CelNula

-----------------------------------------------------------------------------
(* Series helpers: a Series is a sequence of [chave, valor] in index order.*)

NaN == "NaN"

DESCONHECIDO == "desconhecido"

RECURSIVE Unique(_)
\* Series.unique(): the distinct values in order of first appearance
Unique(s) ==
    IF s = <<>> THEN <<>>
    ELSE LET r == Unique(SubSeq(s, 1, Len(s) - 1))
             x == s[Len(s)]
         IN  IF x \in Range(r) THEN r ELSE Append(r, x)

Chaves(serie_) == {serie_[i].chave : i \in DOMAIN serie_}

\* Series.get(chave, padrao)
Get(serie_, chave, padrao) ==
    IF chave \in Chaves(serie_)
    THEN serie_[CHOOSE i \in DOMAIN serie_ : serie_[i].chave = chave].valor
    ELSE padrao

RECURSIVE InsertAsc(_, _)
\* x placed after every element whose valor is <= x.valor
InsertAsc(x, s) ==
    IF s = <<>> THEN <<x>>
    ELSE IF x.valor < Head(s).valor THEN <<x>> \o s
         ELSE <<Head(s)>> \o InsertAsc(x, Tail(s))

RECURSIVE OrdenarAsc(_)
\* stable ascending sort by valor
OrdenarAsc(s) ==
    IF s = <<>> THEN <<>>
    ELSE InsertAsc(s[Len(s)], OrdenarAsc(SubSeq(s, 1, Len(s) - 1)))

RECURSIVE InsertDesc(_, _)
InsertDesc(x, s) ==
    IF s = <<>> THEN <<x>>
    ELSE IF x.valor > Head(s).valor THEN <<x>> \o s
         ELSE <<Head(s)>> \o InsertDesc(x, Tail(s))

RECURSIVE OrdenarDesc(_)
\* stable descending sort by valor
OrdenarDesc(s) ==
    IF s = <<>> THEN <<>>
    ELSE InsertDesc(s[Len(s)], OrdenarDesc(SubSeq(s, 1, Len(s) - 1)))

\* Series.head(n)
Head_n(s, n) == SubSeq(s, 1, IF Len(s) < n THEN Len(s) ELSE n)

\* the column col of a frame, as a sequence of values
Coluna(linhas, col) == [i \in DOMAIN linhas |-> linhas[i][col]]

\* frame[col].value_counts(): NaN is not counted; most frequent first, equal
\* counts in order of first appearance
value_counts(linhas, col) ==
    LET vals == SelectSeq(Coluna(linhas, col), LAMBDA v : v # NaN)
        ks   == Unique(vals)
        n(k) == Cardinality({i \in DOMAIN vals : vals[i] = k})
    IN  OrdenarDesc([i \in DOMAIN ks |-> [chave |-> ks[i], valor |-> n(ks[i])]])

\* the strings of the model in Python's str order, for sorted index unions
LEXICO == <<"F1", "F2", "M1", "M2", "N1", "N2", "Ouvidoria", "Procon",
            "S1", "S2", "desconhecido">>

Posicao(txt) == CHOOSE i \in DOMAIN LEXICO : LEXICO[i] = txt

RECURSIVE Ordenado(_)
\* the elements of a set of strings, sorted
Ordenado(S) ==
    IF S = {} THEN <<>>
    ELSE LET m == CHOOSE x \in S : \A y \in S : Posicao(x) <= Posicao(y)
         IN  <<m>> \o Ordenado(S \ {m})

\* the index of an outer alignment of two Series (Index.union, sort=None):
\* equal indexes and an empty side keep the order, otherwise sorted
UniaoIndice(a, b) ==
    LET ia == [i \in DOMAIN a |-> a[i].chave]
        ib == [i \in DOMAIN b |-> b[i].chave]
    IN  IF ia = ib \/ ib = <<>> THEN ia
        ELSE IF ia = <<>> THEN ib
        ELSE Ordenado(Range(ia) \cup Range(ib))

-----------------------------------------------------------------------------
(* processar_dados, lines 27-65.  The headers of an uploaded table are     *)
(* taken as they stand after lines 30-33.  A row of the uploaded table has *)
(* a cell per column; the cells of a column the table lacks are not read.  *)

COLUNAS ==
    {"ano", "mes", "segmento", "ds_canal", "natureza", "motivo",
     "fato_gerador_fato_gerador"}

\* cells of the year column: an integer literal, a numeric literal that is
\* no integer (v stands for v + 1/2), any other text, an empty cell
AnoInt(v) == [k |-> "int", v |-> v]

AnoFrac(v) == [k |-> "frac", v |-> v]

AnoTexto == [k |-> "texto", v |-> 0]

AnoNaN == [k |-> "nan", v |-> 0]

\* pd.to_numeric(..., errors='coerce') on one cell (line 36)
to_numeric(cel) == IF cel.k \in {"int", "frac"} THEN cel ELSE AnoNaN

\* Whether lines 36-37 raise, which line 63 catches:
\*   KeyError       the table has no 'ano' or no 'mes' column
\*   TypeError      astype('Int64') on a float that is no integer
\*   AttributeError .str on a month column read as float64, that is, one
\*                  with rows and nothing but empty cells
Levanta(t) ==
    \/ "ano" \notin t.colunas
    \/ \E i \in DOMAIN t.linhas : to_numeric(t.linhas[i].ano).k = "frac"
    \/ "mes" \notin t.colunas
    \/ t.linhas # <<>> /\ \A i \in DOMAIN t.linhas : t.linhas[i].mes.nulo

\* lines 52-56: fillna on a column the table has, the constant otherwise
Preenchido(t, linha, col) ==
    IF col \in t.colunas
    THEN IF linha[col] = NaN THEN DESCONHECIDO ELSE linha[col]
    ELSE DESCONHECIDO

\* lines 59-60: the column is created when absent and left as it is when
\* present
FatoGerador(t, linha) ==
    IF "fato_gerador_fato_gerador" \notin t.colunas
    THEN DESCONHECIDO
    ELSE linha.fato_gerador_fato_gerador

\* line 49: the rows dropna keeps, by their index label
Mantidas(t) ==
    {i \in DOMAIN t.linhas :
        /\ ~CanonMes(t.linhas[i].mes).nulo
        /\ to_numeric(t.linhas[i].ano).k = "int"}

\* one row of the returned frame; idx is its index label, which dropna keeps
Normalizada(t, i) ==
    LET linha == t.linhas[i]
    IN  [idx       |-> i,
         ano       |-> to_numeric(linha.ano).v,
         mes       |-> CanonMes(linha.mes).txt,
         segmento  |-> Preenchido(t, linha, "segmento"),
         ds_canal  |-> Preenchido(t, linha, "ds_canal"),
         natureza  |-> Preenchido(t, linha, "natureza"),
         motivo    |-> Preenchido(t, linha, "motivo"),
         fato_gerador_fato_gerador |-> FatoGerador(t, linha)]

\* the returned frame: pd.DataFrame() with st.error when a line raised
processar_dados(t) ==
    IF Levanta(t)
    THEN [erro |-> TRUE, linhas |-> <<>>]
    ELSE LET idx == SelectSeq([i \in DOMAIN t.linhas |-> i],
                              LAMBDA i : i \in Mantidas(t))
         IN  [erro   |-> FALSE,
              linhas |-> [j \in DOMAIN idx |-> Normalizada(t, idx[j])]]

-----------------------------------------------------------------------------
(* The script body, lines 78-254, as functions of the frame and of the     *)
(* sidebar selection s = [ano_atual, ano_anterior, mes_atual, mes_anterior]*)

TOP_N == 5

CANAIS == <<"Procon", "Ouvidoria", "Geral">>

\* line 81
anos_disponiveis(linhas) == {linhas[i].ano : i \in DOMAIN linhas}

\* lines 89, 92
df_atual(linhas, s) ==
    SelectSeq(linhas, LAMBDA r : r.mes = s.mes_atual /\ r.ano = s.ano_atual)

\* lines 90, 93
df_anterior(linhas, s) ==
    SelectSeq(linhas,
              LAMBDA r : r.mes = s.mes_anterior /\ r.ano = s.ano_anterior)

\* lines 95-98: the percentage of the overall summary
variacao(total_atual, total_anterior) ==
    IF total_anterior # 0
    THEN Times(TrueDiv(total_atual - total_anterior, total_anterior), 100)
    ELSE Numero(0)

\* lines 144, 167: df['segmento'].dropna().unique()
segmentos(linhas) ==
    Unique(SelectSeq(Coluna(linhas, "segmento"), LAMBDA v : v # NaN))

\* lines 147-148: the frame itself for 'Geral', its rows of the channel
\* otherwise
DoCanal(linhas, canal) ==
    IF canal = "Geral" THEN linhas
    ELSE SelectSeq(linhas, LAMBDA r : r.ds_canal = canal)

\* the table with the keys of the current side only
comparacao_so_atual(atual, anterior, col) ==
    LET a == value_counts(atual, col)
        b == value_counts(anterior, col)
    IN  [k \in Chaves(a) |->
            [Atual |-> Get(a, k, 0), Anterior |-> Get(b, k, 0),
             Variacao |-> Get(a, k, 0) - Get(b, k, 0)]]

\* lines 153-156 and 159-162: pd.concat(axis=1) joins the two value_counts
\* on the union of their indexes, fillna(0) fills the side that lacks a key
comparacao(atual, anterior, col) ==
    LET a == value_counts(atual, col)
        b == value_counts(anterior, col)
    IN  [k \in Chaves(a) \cup Chaves(b) |->
            [Atual |-> Get(a, k, 0), Anterior |-> Get(b, k, 0),
             Variacao |-> Get(a, k, 0) - Get(b, k, 0)]]

\* lines 144-163: one entry per (segmento, canal) the loop does not skip
tabelas(linhas, s) ==
    LET at == df_atual(linhas, s)
        an == df_anterior(linhas, s)
    IN  {[segmento |-> seg, canal |-> canal,
          comparacao_natureza |->
              comparacao(DoCanal(at, canal), DoCanal(an, canal), "natureza"),
          comparacao_motivo |->
              comparacao(DoCanal(at, canal), DoCanal(an, canal), "motivo")] :
         <<seg, canal>> \in
            {p \in Range(segmentos(linhas)) \X Range(CANAIS) :
                ~(DoCanal(at, p[2]) = <<>> /\ DoCanal(an, p[2]) = <<>>)}}

\* lines 170-171: groupby(['ano', 'mes']).size() of one segment, as the
\* count of every (ano, mes) that has rows
df_evolucao(linhas, seg) ==
    LET ls == SelectSeq(linhas, LAMBDA r : r.segmento = seg)
        ps == {<<ls[i].ano, ls[i].mes>> : i \in DOMAIN ls}
    IN  [p \in ps |->
            Cardinality({i \in DOMAIN ls : <<ls[i].ano, ls[i].mes>> = p})]

\* lines 204-206: count_atual_natureza.subtract(count_anterior_natureza,
\* fill_value=0)
naturezas_positivas(seg_atual, seg_anterior) ==
    LET a   == value_counts(seg_atual, "natureza")
        b   == value_counts(seg_anterior, "natureza")
        idx == UniaoIndice(a, b)
    IN  [i \in DOMAIN idx |->
            [chave |-> idx[i],
             valor |-> Get(a, idx[i], 0) - Get(b, idx[i], 0)]]

\* Series.nsmallest(n), keep='first'
nsmallest(s, n) == Head_n(OrdenarAsc(s), n)

\* Series.nlargest(n), keep='first'
nlargest(s, n) == Head_n(OrdenarDesc(s), n)

\* the five smallest without the test of line 211
Reducoes_sem_teste(s) == nsmallest(s, TOP_N)

\* lines 210-211: the natures listed under "Naturezas com Redução"
Reducoes(s) == SelectSeq(nsmallest(s, TOP_N), LAMBDA e : e.valor < 0)

\* lines 234-235: the natures listed under "Naturezas com Aumento"
Aumentos(s) == SelectSeq(nlargest(s, TOP_N), LAMBDA e : e.valor > 0)

\* lines 214-218 and 238-242: one entry per reason of motivos_atual
Motivos(seg_atual, seg_anterior, natureza) ==
    LET motivos_atual ==
            value_counts(SelectSeq(seg_atual,
                                   LAMBDA r : r.natureza = natureza),
                         "motivo")
        motivos_anterior ==
            value_counts(SelectSeq(seg_anterior,
                                   LAMBDA r : r.natureza = natureza),
                         "motivo")
    IN  [i \in DOMAIN motivos_atual |->
            LET motivo == motivos_atual[i].chave
                atual  == motivos_atual[i].valor
                antes  == Get(motivos_anterior, motivo, 0)
            IN  [motivo |-> motivo, count_atual |-> atual,
                 count_anterior |-> antes,
                 var_motivo |-> analisar_variacao(atual, antes).var]]

\* lines 228-229 and 252-253
Fatos(seg_atual, natureza) ==
    Head_n(value_counts(SelectSeq(seg_atual,
                                  LAMBDA r : r.natureza = natureza),
                        "fato_gerador_fato_gerador"),
           TOP_N)

\* one expander of lines 212-230 or 236-254
Expander(seg_atual, seg_anterior, e) ==
    [natureza |-> e.chave, variacao |-> e.valor,
     motivos  |-> Motivos(seg_atual, seg_anterior, e.chave),
     fatos    |-> Fatos(seg_atual, e.chave)]

\* lines 167-254 for one segment
Detalhe(linhas, s, seg) ==
    LET seg_atual    == SelectSeq(df_atual(linhas, s),
                                  LAMBDA r : r.segmento = seg)
        seg_anterior == SelectSeq(df_anterior(linhas, s),
                                  LAMBDA r : r.segmento = seg)
        np  == naturezas_positivas(seg_atual, seg_anterior)
        red == Reducoes(np)
        aum == Aumentos(np)
    IN  [evolucao |-> df_evolucao(linhas, seg),
         reducoes |-> [i \in DOMAIN red |->
                          Expander(seg_atual, seg_anterior, red[i])],
         aumentos |-> [i \in DOMAIN aum |->
                          Expander(seg_atual, seg_anterior, aum[i])]]

\* everything the script renders, lines 95-254
Corpo(linhas, s) ==
    LET total_atual    == Len(df_atual(linhas, s))
        total_anterior == Len(df_anterior(linhas, s))
    IN  [total_atual    |-> total_atual,
         total_anterior |-> total_anterior,
         variacao       |-> variacao(total_atual, total_anterior),
         tabelas        |-> tabelas(linhas, s),
         segmentos      |-> [seg \in Range(segmentos(linhas)) |->
                                Detalhe(linhas, s, seg)]]

-----------------------------------------------------------------------------
(* Inputs: the tables a user may upload and the calls made.                *)

SeqAte(S, n) == UNION {[1..k -> S] : k \in 0..n}

Upper(s) == [i \in DOMAIN s |-> UpperChar(s[i])]

Capitalize(s) == [i \in DOMAIN s |-> IF i = 1 THEN UpperChar(s[i]) ELSE s[i]]

Pad(s) == <<" ">> \o s \o <<" ", "\t">>

\* the twelve full names and the twelve abbreviations
NOMES_MES ==
    Range(ORDEM_MESES) \cup {meses_map[i][1] : i \in DOMAIN meses_map}

\* every name in lower case, upper case and capitalised, bare and padded
GrafiasMes ==
    LET caixas == UNION {{n, Upper(n), Capitalize(n)} : n \in NOMES_MES}
    IN  caixas \cup {Pad(n) : n \in caixas}

\* month texts that are no month of meses_map or ORDEM_MESES
OutrosMes ==
    {<<"x", "y", "z">>, <<"m", "a", "r", "c", "o">>, <<"j", "a">>,
     <<"j", "a", " ", "n">>, <<"j", "a", "n", "e", "i", "r", "o", "s">>,
     <<"1">>, <<" ">>, <<>>}

CelulasMes == {Cel(txt) : txt \in GrafiasMes \cup OutrosMes} \cup {CelNula}

JAN == <<"j", "a", "n">>

FEV == <<"F", "e", "v">>

\* the natures with their reasons: N1 has two reasons, M1 is a reason of two
\* natures
NATUREZA_MOTIVO == {<<"N1", "M1">>, <<"N1", "M2">>, <<"N2", "M1">>}

\* rows without a defect, for the analysis
LinhasAnalise ==
    {[ano |-> AnoInt(2025), mes |-> m, segmento |-> seg, ds_canal |-> canal,
      natureza |-> nm[1], motivo |-> nm[2],
      fato_gerador_fato_gerador |-> "F1"] :
        m \in {Cel(JAN), Cel(FEV)}, seg \in {"S1", "S2"},
        canal \in {"Procon", "Ouvidoria"}, nm \in NATUREZA_MOTIVO}

\* the tables of at most n rows of a set of rows, with every column
TabelasAnalise(n) ==
    {[colunas |-> COLUNAS, linhas |-> l] : l \in SeqAte(LinhasAnalise, n)}

\* one row per spelling of the month column
LinhasMes ==
    [ano : {AnoInt(2025)}, mes : CelulasMes,
     segmento : {"S1"}, ds_canal : {"Procon"}, natureza : {"N1"},
     motivo : {"M1"}, fato_gerador_fato_gerador : {"F1"}]

\* rows with every combination of defective cells
LinhasBrutas ==
    [ano : {AnoInt(2025), AnoFrac(2024), AnoTexto, AnoNaN},
     mes : {Cel(Pad(Capitalize(JAN))), Cel(<<"x", "y", "z">>), CelNula},
     segmento : {"S1", NaN}, ds_canal : {"Procon", NaN},
     natureza : {"N1", NaN}, motivo : {"M1", NaN},
     fato_gerador_fato_gerador : {"F1", NaN}]

\* rows for the tables of several rows
LinhasDuplas ==
    [ano : {AnoInt(2025), AnoFrac(2024), AnoNaN},
     mes : {Cel(JAN), CelNula},
     segmento : {"S1"}, ds_canal : {"Procon"}, natureza : {"N1"},
     motivo : {"M1"}, fato_gerador_fato_gerador : {"F1", NaN}]

\* the headers an uploaded table may have
CONJ_COLUNAS ==
    {COLUNAS, COLUNAS \ {"fato_gerador_fato_gerador"}, COLUNAS \ {"natureza"},
     COLUNAS \ {"ano"}}

\* the cells of a column the table lacks do not exist: they are blanked
Recortada(cols, linha) ==
    [c \in COLUNAS |->
        IF c \in cols THEN linha[c]
        ELSE IF c = "ano" THEN AnoNaN
        ELSE IF c = "mes" THEN CelNula
        ELSE NaN]

TabelasBrutas(n) ==
    {[colunas |-> cols,
      linhas  |-> [i \in DOMAIN l |-> Recortada(cols, l[i])]] :
        cols \in CONJ_COLUNAS,
        l \in SeqAte(LinhasDuplas, n)
              \cup {<<r>> : r \in LinhasMes \cup LinhasBrutas}}

\* the Series given to the ranker: natures named by their place in the index
Series(n, delta) ==
    {[i \in DOMAIN d |-> [chave |-> i, valor |-> d[i]]] :
        d \in SeqAte(-delta..delta, n)}

Selecoes(linhas) ==
    [ano_atual : anos_disponiveis(linhas),
     ano_anterior : anos_disponiveis(linhas),
     mes_atual : {ORDEM_MESES[i] : i \in 1..MaxMes},
     mes_anterior : {ORDEM_MESES[i] : i \in 1..MaxMes}]

-----------------------------------------------------------------------------
(* The script: upload, then the sidebar and the body, or the warning.      *)

SemSelecao == [ano_atual |-> 0, ano_anterior |-> 0,
               mes_atual |-> <<>>, mes_anterior |-> <<>>]

Parado ==
    /\ count_atual = 0
    /\ count_anterior = 0
    /\ ret = <<>>
    /\ bruto = [colunas |-> {}, linhas |-> <<>>]
    /\ df = <<>>
    /\ erro = FALSE
    /\ sel = SemSelecao
    /\ saida = <<>>
    /\ serie = <<>>
    /\ ranking = <<>>

Init == pc = "inicio" /\ Parado

\* lines 70-76: a table is uploaded and processed
Upload(t) ==
    /\ bruto' = t
    /\ LET r == processar_dados(t)
       IN  df' = r.linhas /\ erro' = r.erro
    /\ pc' = "carregado"
    /\ UNCHANGED <<count_atual, count_anterior, ret, sel, saida, serie,
                   ranking>>

Carregar == pc = "inicio" /\ \E t \in TabelasAnalise(MaxLinhas) : Upload(t)

CarregarBruto == pc = "inicio" /\ \E t \in TabelasBrutas(MaxBrutas) : Upload(t)

\* lines 78-254: the user picks the two periods and the body renders
Analisar ==
    /\ pc = "carregado"
    /\ df # <<>>
    /\ \E s \in Selecoes(df) :
          /\ sel' = s
          /\ saida' = Corpo(df, s)
    /\ pc' = "exibido"
    /\ UNCHANGED <<count_atual, count_anterior, ret, bruto, df, erro, serie,
                   ranking>>

\* lines 255-256: nothing valid after processing
Aviso ==
    /\ pc = "carregado"
    /\ df = <<>>
    /\ pc' = "aviso"
    /\ UNCHANGED <<count_atual, count_anterior, ret, bruto, df, erro, sel,
                   saida, serie, ranking>>

Next == Carregar \/ Analisar \/ Aviso

Spec == Init /\ [][Next]_vars

NextProc == CarregarBruto \/ Analisar \/ Aviso

SpecProc == Init /\ [][NextProc]_vars

-----------------------------------------------------------------------------
(* analisar_variacao called on any two counts.                             *)

InitVar ==
    /\ pc = "chamar"
    /\ count_atual \in 0..MaxCount
    /\ count_anterior \in 0..MaxCount
    /\ ret = <<>>
    /\ bruto = [colunas |-> {}, linhas |-> <<>>]
    /\ df = <<>>
    /\ erro = FALSE
    /\ sel = SemSelecao
    /\ saida = <<>>
    /\ serie = <<>>
    /\ ranking = <<>>

Chamar ==
    /\ pc = "chamar"
    /\ ret' = analisar_variacao(count_atual, count_anterior)
    /\ pc' = "retornou"
    /\ UNCHANGED <<count_atual, count_anterior, bruto, df, erro, sel, saida,
                   serie, ranking>>

NextVar == Chamar

SpecVar == InitVar /\ [][NextVar]_vars

-----------------------------------------------------------------------------
(* Lines 206-211 and 234-235 on any Series of deltas.                      *)

InitRank ==
    /\ pc = "classificar"
    /\ serie \in Series(MaxSerie, MaxDelta)
    /\ count_atual = 0
    /\ count_anterior = 0
    /\ ret = <<>>
    /\ bruto = [colunas |-> {}, linhas |-> <<>>]
    /\ df = <<>>
    /\ erro = FALSE
    /\ sel = SemSelecao
    /\ saida = <<>>
    /\ ranking = <<>>

Classificar ==
    /\ pc = "classificar"
    /\ ranking' = [reducoes |-> Reducoes(serie), aumentos |-> Aumentos(serie)]
    /\ pc' = "classificado"
    /\ UNCHANGED <<count_atual, count_anterior, ret, bruto, df, erro, sel,
                   saida, serie>>

NextRank == Classificar

SpecRank == InitRank /\ [][NextRank]_vars

-----------------------------------------------------------------------------
(* Properties.  The counts they compare with are taken from the frame by   *)
(* counting rows, independently of value_counts and of the filters above.  *)

Min(a, b) == IF a < b THEN a ELSE b

\* the rows of the frame in the current and in the reference period
Atuais ==
    {i \in DOMAIN df : df[i].mes = sel.mes_atual /\ df[i].ano = sel.ano_atual}

Anteriores ==
    {i \in DOMAIN df :
        df[i].mes = sel.mes_anterior /\ df[i].ano = sel.ano_anterior}

NoCanal(r, canal) == canal = "Geral" \/ r.ds_canal = canal

\* C1: for counts a, b >= 0 the percent returned is a defined number;
\* (0, 0) gives (0, 0); (c, 0) with c > 0 gives exactly (100.0, +1).
C1_PercentualDefinido ==
    pc = "retornou" =>
        /\ Definido(ret.var)
        /\ (count_anterior = 0 /\ count_atual = 0 =>
                ret = [var |-> Numero(0), dir |-> 0])
        /\ (count_anterior = 0 /\ count_atual > 0 =>
                ret = [var |-> Numero(100), dir |-> 1])

\* C1 witness: a call with a zero reference and a current count above one
C1_Witness ==
    /\ pc = "retornou"
    /\ count_anterior = 0
    /\ count_atual > 1
    /\ ret.var = Numero(100)

\* C2: for b > 0 the percent is (a - b) / b * 100 and the direction is +1
\* when the percent is positive, -1 when negative and 0 when it is zero.
C2_PercentualEDirecao ==
    pc = "retornou" /\ count_anterior > 0 =>
        /\ Definido(ret.var)
        /\ ret.var.num * count_anterior
              = (count_atual - count_anterior) * 100 * ret.var.den
        /\ ret.dir = IF count_atual > count_anterior THEN 1
                     ELSE IF count_atual < count_anterior THEN -1
                     ELSE 0

\* C3: with an empty reference period the summary does not raise and shows
\* 0 when the current period is empty too, 100.0 when it has records.
C3_ResumoReferenciaVazia ==
    pc = "exibido" /\ Anteriores = {} =>
        /\ Definido(saida.variacao)
        /\ (Atuais = {} => saida.variacao = Numero(0))
        /\ (Atuais # {} => saida.variacao = Numero(100))

\* C4: in the table of (segment S, channel C) the counts shown for a nature
\* or reason v are the numbers of current and reference records of segment
\* S with value v in channel C (any channel for Geral).
C4_ContagemPorSegmento ==
    pc = "exibido" =>
        \A t \in saida.tabelas :
            /\ \A v \in DOMAIN t.comparacao_natureza :
                  /\ t.comparacao_natureza[v].Atual = Cardinality(
                        {i \in Atuais : /\ df[i].segmento = t.segmento
                                        /\ df[i].natureza = v
                                        /\ NoCanal(df[i], t.canal)})
                  /\ t.comparacao_natureza[v].Anterior = Cardinality(
                        {i \in Anteriores : /\ df[i].segmento = t.segmento
                                            /\ df[i].natureza = v
                                            /\ NoCanal(df[i], t.canal)})
            /\ \A v \in DOMAIN t.comparacao_motivo :
                  /\ t.comparacao_motivo[v].Atual = Cardinality(
                        {i \in Atuais : /\ df[i].segmento = t.segmento
                                        /\ df[i].motivo = v
                                        /\ NoCanal(df[i], t.canal)})
                  /\ t.comparacao_motivo[v].Anterior = Cardinality(
                        {i \in Anteriores : /\ df[i].segmento = t.segmento
                                            /\ df[i].motivo = v
                                            /\ NoCanal(df[i], t.canal)})

\* C5: a (segment, channel) pair is left out exactly when neither period
\* has a record of that segment in that channel.
C5_ParOmitido ==
    pc = "exibido" =>
        \A seg \in {df[i].segmento : i \in DOMAIN df}, canal \in Range(CANAIS) :
            (\E t \in saida.tabelas : t.segmento = seg /\ t.canal = canal)
            <=> (\E i \in Atuais \cup Anteriores :
                    df[i].segmento = seg /\ NoCanal(df[i], canal))

\* the rows of the two periods that the table of one channel is built from
FonteAtual(canal) == {i \in Atuais : NoCanal(df[i], canal)}

FonteAnterior(canal) == {i \in Anteriores : NoCanal(df[i], canal)}

TabelaEhUniao(tabela, canal, col) ==
    /\ DOMAIN tabela =
          {df[i][col] : i \in FonteAtual(canal) \cup FonteAnterior(canal)}
    /\ \A k \in DOMAIN tabela :
          /\ tabela[k].Atual =
                Cardinality({i \in FonteAtual(canal) : df[i][col] = k})
          /\ tabela[k].Anterior =
                Cardinality({i \in FonteAnterior(canal) : df[i][col] = k})
          /\ tabela[k].Variacao = tabela[k].Atual - tabela[k].Anterior

\* C6: the keys of a nature or reason table are exactly the values occurring
\* in the current or the reference subset it is built from; a key of one
\* side only has count 0 on the other, and delta = current - reference.
C6_ChavesSaoUniao ==
    pc = "exibido" =>
        \A t \in saida.tabelas :
            /\ TabelaEhUniao(t.comparacao_natureza, t.canal, "natureza")
            /\ TabelaEhUniao(t.comparacao_motivo, t.canal, "motivo")

\* C6 witness: a table with a nature counted in the reference period only
\* and a reason counted in the current period only
C6_Witness ==
    /\ pc = "exibido"
    /\ \E t \in saida.tabelas :
          /\ \E k \in DOMAIN t.comparacao_natureza :
                /\ t.comparacao_natureza[k].Atual = 0
                /\ t.comparacao_natureza[k].Anterior > 0
          /\ \E k \in DOMAIN t.comparacao_motivo :
                /\ t.comparacao_motivo[k].Atual > 0
                /\ t.comparacao_motivo[k].Anterior = 0

\* lista holds, in order, the first (at most five) entries of the Series
\* whose valor satisfies Lado, ranked by Antes with ties in index order
ListaOrdenada(lista, Lado(_), Antes(_, _)) ==
    LET lado == {i \in DOMAIN serie : Lado(serie[i].valor)}
        na   == {lista[j].chave : j \in DOMAIN lista}
    IN  /\ Len(lista) = Min(5, Cardinality(lado))
        /\ \A j \in DOMAIN lista :
              lista[j].chave \in lado /\ lista[j] = serie[lista[j].chave]
        /\ \A j, k \in DOMAIN lista :
              j < k =>
                \/ Antes(lista[j].valor, lista[k].valor)
                \/ /\ lista[j].valor = lista[k].valor
                   /\ lista[j].chave < lista[k].chave
        /\ \A i \in lado \ na, j \in DOMAIN lista :
              \/ Antes(lista[j].valor, serie[i].valor)
              \/ lista[j].valor = serie[i].valor /\ lista[j].chave < i

\* C7: "most improved" lists at most 5 natures, all of negative delta, the
\* smallest deltas first; "most worsened" at most 5, all of positive delta,
\* the largest first; no zero delta is listed; ties keep the index order.
C7_Ranking ==
    pc = "classificado" =>
        /\ ListaOrdenada(ranking.reducoes, LAMBDA v : v < 0,
                         LAMBDA x, y : x < y)
        /\ ListaOrdenada(ranking.aumentos, LAMBDA v : v > 0,
                         LAMBDA x, y : x > y)

\* C7 witness: six natures of negative delta, two of them tied, five listed
C7_Witness ==
    /\ pc = "classificado"
    /\ Len(serie) = 6
    /\ \A i \in DOMAIN serie : serie[i].valor < 0
    /\ Len(ranking.reducoes) = 5
    /\ \E j \in 1..4 :
          ranking.reducoes[j].valor = ranking.reducoes[j + 1].valor
    /\ ranking.reducoes[1].valor < ranking.reducoes[5].valor

-----------------------------------------------------------------------------
(* Properties of processar_dados, stated on the uploaded table.            *)

\* the standard abbreviation of the k-th month: its first three letters
Abrev(k) == SubSeq(ORDEM_MESES[k], 1, 3)

\* the spellings of a name: lower, upper, capitalised, bare or padded
Grafias(n) ==
    LET caixas == {n, Upper(n), Capitalize(n)}
    IN  caixas \cup {Pad(c) : c \in caixas}

\* the months a cell of the month column spells (none, or one)
MesesDe(cel) ==
    IF cel.nulo THEN {}
    ELSE {k \in 1..12 : cel.txt \in Grafias(ORDEM_MESES[k])
                                     \cup Grafias(Abrev(k))}

\* the index labels of the rows the returned frame holds
Retidas == {df[j].idx : j \in DOMAIN df}

\* the value a categorical cell of row i must have after normalisation
Esperado(i, col) ==
    IF col \in bruto.colunas /\ bruto.linhas[i][col] # NaN
    THEN bruto.linhas[i][col]
    ELSE DESCONHECIDO

\* C8: every retained record has a year, a canonical month and no null in
\* segment, channel, nature, reason and causal factor: each is the input
\* value or 'desconhecido', also when the causal-factor column is present
\* with missing cells.
C8_SemNulos ==
    pc # "inicio" =>
        \A j \in DOMAIN df :
            /\ bruto.linhas[df[j].idx].ano = AnoInt(df[j].ano)
            /\ df[j].mes \in Range(ORDEM_MESES)
            /\ \A col \in {"segmento", "ds_canal", "natureza", "motivo",
                           "fato_gerador_fato_gerador"} :
                  df[j][col] # NaN /\ df[j][col] = Esperado(df[j].idx, col)

\* the rows of the uploaded table that belong to a period, by their cells
DoPeriodo(ano, mes) ==
    {i \in DOMAIN bruto.linhas :
        /\ bruto.linhas[i].ano = AnoInt(ano)
        /\ \E k \in MesesDe(bruto.linhas[i].mes) : ORDEM_MESES[k] = mes}

\* C9: a month cell spelling a full name or a standard abbreviation, in any
\* case and with surrounding whitespace, becomes the canonical name; a row
\* with any other month value is dropped; a row is dropped only when its
\* year or month is missing; a dropped row is in no period subset and in no
\* trend series.
C9_MesCanonicoOuDescartada ==
    pc # "inicio" =>
        /\ \A i \in DOMAIN bruto.linhas :
              LET linha == bruto.linhas[i]
              IN  /\ i \in Retidas
                        <=> linha.ano.k = "int" /\ MesesDe(linha.mes) # {}
                  /\ \A j \in DOMAIN df :
                        df[j].idx = i =>
                            \E k \in MesesDe(linha.mes) :
                                df[j].mes = ORDEM_MESES[k]
        /\ pc = "exibido" =>
              /\ saida.total_atual =
                    Cardinality(DoPeriodo(sel.ano_atual, sel.mes_atual))
              /\ saida.total_anterior =
                    Cardinality(DoPeriodo(sel.ano_anterior, sel.mes_anterior))
              /\ \A seg \in DOMAIN saida.segmentos :
                    \A p \in DOMAIN saida.segmentos[seg].evolucao :
                        saida.segmentos[seg].evolucao[p] =
                            Cardinality({i \in DoPeriodo(p[1], p[2]) :
                                            Esperado(i, "segmento") = seg})

\* the rows of one nature of one segment in a set of rows of the frame
DaNatureza(linhas, seg, natureza) ==
    {i \in linhas : df[i].segmento = seg /\ df[i].natureza = natureza}

MotivosCompletos(seg, e) ==
    LET at == DaNatureza(Atuais, seg, e.natureza)
        an == DaNatureza(Anteriores, seg, e.natureza)
    IN  /\ {e.motivos[j].motivo : j \in DOMAIN e.motivos}
              = {df[i].motivo : i \in at \cup an}
        /\ \A j \in DOMAIN e.motivos :
              LET m == e.motivos[j]
              IN  /\ m.count_atual =
                        Cardinality({i \in at : df[i].motivo = m.motivo})
                  /\ m.count_anterior =
                        Cardinality({i \in an : df[i].motivo = m.motivo})
                  /\ m.var_motivo =
                        analisar_variacao(m.count_atual, m.count_anterior).var

\* C10: every listed nature has one breakdown entry, with the two counts and
\* the percent, for every reason of that segment and nature occurring in
\* the current or in the reference period.
C10_MotivosDosDoisPeriodos ==
    pc = "exibido" =>
        \A seg \in DOMAIN saida.segmentos :
            /\ \A j \in DOMAIN saida.segmentos[seg].reducoes :
                  MotivosCompletos(seg, saida.segmentos[seg].reducoes[j])
            /\ \A j \in DOMAIN saida.segmentos[seg].aumentos :
                  MotivosCompletos(seg, saida.segmentos[seg].aumentos[j])

=============================================================================
